---------------------------- MODULE Spec2Model ----------------------------
(***************************************************************************)
(* A model of VidDwn.py: the startup check for the transcoding tool, the   *)
(* main window (YouTubeDownloader) with its event handlers, the download   *)
(* worker (DownloadWorker.run) and the history file.                       *)
(*                                                                         *)
(* Text is modelled as a sequence of one-character strings, so that        *)
(* trimming, the URL pattern, the substring match and the JSON encoding    *)
(* are computed character by character.                                    *)
(***************************************************************************)
EXTENDS Integers, Sequences, FiniteSets, TLC

VARIABLES
    \* ---- process and startup (main, __init__, check_ffmpeg) ----
    pc,               \* where the main thread is
    exit_status,      \* how the process ended: "1", "SIGABRT", None while it runs
    PATH,             \* os.environ["PATH"]: a sequence of directories
    prompted,         \* whether the "FFmpeg Not Found" box was shown
    install_ret,      \* what download_and_install_ffmpeg returned
    \* ---- widgets of the main window ----
    download_button,  \* isEnabled()
    cancel_button,
    delete_button,
    status_label,
    progress_bar,
    history_list,     \* the items of the QListWidget, in order
    \* ---- the history file ----
    history_file,     \* download_history.json: Absent or its text
    \* ---- download workers and threads ----
    workers,          \* every DownloadWorker created, with its QThread
    queue,            \* signals queued for the main thread, in emission order
    stack,            \* handlers suspended on the main thread (modal box, wait)
    last,             \* what the handler that ran last did (NoResult: nothing kept)
    \* ---- a function applied on its own: its arguments and its result ----
    fn_in, fn_out

vars == <<pc, exit_status, PATH, prompted, install_ret,
          download_button, cancel_button, delete_button, status_label,
          progress_bar, history_list, history_file,
          workers, queue, stack, last, fn_in, fn_out>>

None == "None"
\* a text that stands for "no file": no text holds an element of two characters
Absent == <<"no file">>

-----------------------------------------------------------------------------
(* Text helpers *)

RECURSIVE Concat(_)
Concat(ss) == IF ss = <<>> THEN <<>> ELSE Head(ss) \o Concat(Tail(ss))

\* s[i..j], empty when j < i
Slice(s, i, j) == SubSeq(s, i, j)

StartsWithAt(s, p, i) ==
    /\ i + Len(p) - 1 <= Len(s)
    /\ \A k \in 1..Len(p) : s[i + k - 1] = p[k]

\* Python's  p in s
Contains(s, p) == \E i \in 1..(Len(s) - Len(p) + 1) : StartsWithAt(s, p, i)

UpperLetters == <<"A","B","C","D","E","F","G","H","I","J","K","L","M",
                  "N","O","P","Q","R","S","T","U","V","W","X","Y","Z">>
LowerLetters == <<"a","b","c","d","e","f","g","h","i","j","k","l","m",
                  "n","o","p","q","r","s","t","u","v","w","x","y","z">>

LowerChar(c) ==
    IF \E i \in 1..Len(UpperLetters) : UpperLetters[i] = c
    THEN LowerLetters[CHOOSE i \in 1..Len(UpperLetters) : UpperLetters[i] = c]
    ELSE c

\* str.lower()
Lower(s) == [i \in 1..Len(s) |-> LowerChar(s[i])]

\* the characters \s matches, and str.strip() removes, among those modelled
IsSpace(c) == c \in {" ", "\t", "\n"}

RECURSIVE LStrip(_)
LStrip(s) == IF s /= <<>> /\ IsSpace(Head(s)) THEN LStrip(Tail(s)) ELSE s

RECURSIVE RStrip(_)
RStrip(s) ==
    IF s /= <<>> /\ IsSpace(s[Len(s)]) THEN RStrip(SubSeq(s, 1, Len(s) - 1)) ELSE s

\* str.strip()
Strip(s) == RStrip(LStrip(s))

-----------------------------------------------------------------------------
(* validate_url and its table *)

\* SUPPORTED_PLATFORMS, in the order the dict literal lists its keys
SUPPORTED_PLATFORMS == <<
    [key |-> <<"y","o","u","t","u","b","e",".","c","o","m">>, name |-> "YouTube"],
    [key |-> <<"y","o","u","t","u",".","b","e">>,             name |-> "YouTube"],
    [key |-> <<"t","w","i","t","t","e","r",".","c","o","m">>, name |-> "X (Twitter)"],
    [key |-> <<"x",".","c","o","m">>,                         name |-> "X (Twitter)"],
    [key |-> <<"f","b",".","w","a","t","c","h">>,             name |-> "Facebook"],
    [key |-> <<"f","a","c","e","b","o","o","k",".","c","o","m">>, name |-> "Facebook"] >>

\* a character of the class [^:/\s]
IsDomainChar(c) == c \notin {":", "/"} /\ ~IsSpace(c)

\* the end of the longest run of [^:/\s] starting at position i (i - 1 if none)
RECURSIVE RunEnd(_, _)
RunEnd(s, i) ==
    IF i <= Len(s) /\ IsDomainChar(s[i]) THEN RunEnd(s, i + 1) ELSE i - 1

HttpPrefix == <<"h","t","t","p",":","/","/">>
HttpsPrefix == <<"h","t","t","p","s",":","/","/">>

\* re.match(r'^(?:http[s]?://)?([^:/\s]+)', url): group 1, which is never
\* empty, or the empty text when the pattern does not match. The optional prefix is tried first; when no
\* domain character follows it the matcher backtracks and matches the
\* group at the start of the text.
MatchDomain(url) ==
    LET after == IF StartsWithAt(url, HttpsPrefix, 1) THEN Len(HttpsPrefix) + 1
                 ELSE IF StartsWithAt(url, HttpPrefix, 1) THEN Len(HttpPrefix) + 1
                 ELSE 1
        e1 == RunEnd(url, after)
        e0 == RunEnd(url, 1)
    IN  IF e1 >= after THEN Slice(url, after, e1)
        ELSE IF e0 >= 1 THEN Slice(url, 1, e0)
        ELSE <<>>

\* for key in self.SUPPORTED_PLATFORMS: if key in domain: return the name
RECURSIVE FirstKey(_, _)
FirstKey(domain, i) ==
    IF i > Len(SUPPORTED_PLATFORMS) THEN None
    ELSE IF Contains(domain, SUPPORTED_PLATFORMS[i].key)
         THEN SUPPORTED_PLATFORMS[i].name
         ELSE FirstKey(domain, i + 1)

\* a seeded fault: the domain is matched without being lower-cased
validate_url_no_lower(url) ==
    LET m == MatchDomain(url) IN IF m = <<>> THEN None ELSE FirstKey(m, 1)

validate_url(url) ==
    LET m == MatchDomain(url)
    IN  IF m = <<>> THEN None ELSE FirstKey(Lower(m), 1)

-----------------------------------------------------------------------------
(* The history file: json.dump(history, f, indent=4) and json.load(f) *)

\* json's string escapes, for the characters modelled (ensure_ascii=True)
EscapeChar(c) ==
    CASE c = "\"" -> <<"\\", "\"">>
      [] c = "\\" -> <<"\\", "\\">>
      [] c = "\n" -> <<"\\", "n">>
      [] c = "\t" -> <<"\\", "t">>
      [] OTHER    -> <<c>>

\* a seeded fault: the backslash is written unescaped
EncodeString_raw_backslash(s) ==
    <<"\"">> \o Concat([i \in 1..Len(s) |->
                          IF s[i] = "\\" THEN <<s[i]>> ELSE EscapeChar(s[i])])
             \o <<"\"">>

EncodeString(s) ==
    <<"\"">> \o Concat([i \in 1..Len(s) |-> EscapeChar(s[i])]) \o <<"\"">>

Indent4 == <<"\n", " ", " ", " ", " ">>

\* json.dumps(list of str, indent=4)
json_dumps(items) ==
    IF items = <<>> THEN <<"[", "]">>
    ELSE <<"[">>
         \o Concat([i \in 1..Len(items) |->
                      (IF i = 1 THEN <<>> ELSE <<",">>) \o Indent4
                      \o EncodeString(items[i])])
         \o <<"\n", "]">>

JsonWs(c) == c \in {" ", "\t", "\n", "\r"}

RECURSIVE SkipWs(_, _)
SkipWs(t, i) == IF i <= Len(t) /\ JsonWs(t[i]) THEN SkipWs(t, i + 1) ELSE i

JsonError == [ok |-> FALSE, val |-> <<>>, next |-> 0]

\* the character an escape letter stands for, None when it is no escape
Unescape(e) ==
    CASE e = "\"" -> "\""
      [] e = "\\" -> "\\"
      [] e = "/"  -> "/"
      [] e = "n"  -> "\n"
      [] e = "t"  -> "\t"
      [] OTHER    -> None

\* the decoder's string scanner, from the character after the opening quote
RECURSIVE ScanString(_, _, _)
ScanString(t, i, acc) ==
    IF i > Len(t) THEN JsonError
    ELSE IF t[i] = "\"" THEN
        [ok |-> TRUE, val |-> [t |-> "str", v |-> acc], next |-> i + 1]
    ELSE IF t[i] = "\\" THEN
        IF i + 1 > Len(t) \/ Unescape(t[i + 1]) = None THEN JsonError
        ELSE ScanString(t, i + 2, Append(acc, Unescape(t[i + 1])))
    ELSE IF t[i] \in {"\n", "\t", "\r"} THEN JsonError
    ELSE ScanString(t, i + 1, Append(acc, t[i]))

\* the decoder, for the values the modelled characters can spell: strings
\* and arrays. i is the position of the value's first character.
RECURSIVE ParseValue(_, _)
RECURSIVE ParseArray(_, _, _, _)
ParseValue(t, i) ==
    IF i > Len(t) THEN JsonError
    ELSE IF t[i] = "\"" THEN ScanString(t, i + 1, <<>>)
    ELSE IF t[i] = "[" THEN ParseArray(t, SkipWs(t, i + 1), <<>>, TRUE)
    ELSE JsonError

ParseArray(t, i, acc, first) ==
    IF i > Len(t) THEN JsonError
    ELSE IF first /\ t[i] = "]" THEN
        [ok |-> TRUE, val |-> [t |-> "list", v |-> acc], next |-> i + 1]
    ELSE
        LET e == ParseValue(t, i)
            j == SkipWs(t, e.next)
        IN  IF ~e.ok \/ j > Len(t) THEN JsonError
            ELSE IF t[j] = "," THEN
                ParseArray(t, SkipWs(t, j + 1), Append(acc, e.val), FALSE)
            ELSE IF t[j] = "]" THEN
                [ok |-> TRUE, val |-> [t |-> "list", v |-> Append(acc, e.val)],
                 next |-> j + 1]
            ELSE JsonError

\* json.loads(text): the value, or an error (JSONDecodeError)
json_loads(t) ==
    LET e == ParseValue(t, SkipWs(t, 1))
    IN  IF ~e.ok THEN JsonError
        ELSE IF SkipWs(t, e.next) <= Len(t) THEN JsonError
        ELSE e

\* for filepath in history: self.history_list.addItem(filepath), which
\* raises TypeError at the first element that is not a str
RECURSIVE AddItems(_, _)
AddItems(items, vs) ==
    IF vs = <<>> \/ Head(vs).t /= "str" THEN items
    ELSE AddItems(Append(items, Head(vs).v), Tail(vs))

\* load_history: the items of the list widget after it ran on `items`.
\* A missing file is skipped; every exception is caught and reported.
load_history(items, file) ==
    IF file = Absent THEN items
    ELSE LET e == json_loads(file)
         IN  IF ~e.ok THEN items
             ELSE IF e.val.t = "list" THEN AddItems(items, e.val.v)
             ELSE items \o [i \in 1..Len(e.val.v) |-> <<e.val.v[i]>>]

\* save_history: the file after it ran. `io` is what the file system did:
\* the write succeeded, open() failed, or the write failed after open()
\* had truncated the file. Every exception is caught and reported.
save_history(items, file, io) ==
    CASE io = "ok"         -> json_dumps(items)
      [] io = "open_fails" -> file
      [] OTHER             -> <<>>

IoOutcomes == {"ok", "open_fails", "write_fails"}

\* what the file system does at the saves of a run of the whole program:
\* the history file is writable (SpecHist draws the failures)
IoInputs == {"ok"}

-----------------------------------------------------------------------------
(* is_ffmpeg_installed and download_and_install_ffmpeg *)

\* the directories that hold an executable named ffmpeg: one a system
\* installation provides, and the one the downloaded archive unpacks to
SystemFfmpegDir == "/opt/ffmpeg/bin"
ExtractedFfmpegDir == "ffmpeg_temp/bin"
FfmpegDirs == {SystemFfmpegDir, ExtractedFfmpegDir}

\* shutil.which("ffmpeg"): the first directory of the path that holds it
RECURSIVE which_ffmpeg(_)
which_ffmpeg(path) ==
    IF path = <<>> THEN None
    ELSE IF Head(path) \in FfmpegDirs THEN Head(path)
    ELSE which_ffmpeg(Tail(path))

is_ffmpeg_installed(path) == which_ffmpeg(path) /= None

WindowsUrl == <<
        "h","t","t","p","s",":","/","/","w","w","w",".","g","y","a","n",".",
        "d","e","v","/","f","f","m","p","e","g","/","b","u","i","l","d","s",
        "/","f","f","m","p","e","g","-","r","e","l","e","a","s","e","-","e",
        "s","s","e","n","t","i","a","l","s",".","z","i","p" >>
LinuxUrl == <<
        "h","t","t","p","s",":","/","/","j","o","h","n","v","a","n","s","i",
        "c","k","l","e",".","c","o","m","/","f","f","m","p","e","g","/","r",
        "e","l","e","a","s","e","s","/","f","f","m","p","e","g","-","r","e",
        "l","e","a","s","e","-","a","m","d","6","4","-","s","t","a","t","i",
        "c",".","t","a","r",".","x","z" >>
DarwinUrl == <<
        "h","t","t","p","s",":","/","/","e","v","e","r","m","e","e","t",".",
        "c","x","/","f","f","m","p","e","g","/","f","f","m","p","e","g",".",
        "z","i","p" >>

EndsWith(s, p) == Len(p) <= Len(s) /\ StartsWithAt(s, p, Len(s) - Len(p) + 1)

\* platform.system().lower(), and what the file system and the network do
\* during one installation
Systems == {"windows", "linux", "darwin", "freebsd"}
InstallEnvs ==
    [system   : Systems,
     dir_there: BOOLEAN,                        \* os.path.exists(extract_dir)
     makedirs : {"ok", "raises"},               \* os.makedirs(extract_dir)
     retrieve : {"ok", "URLError", "raises"},   \* urllib.request.urlretrieve
     extract  : {"ok", "raises"},               \* extractall
     found    : BOOLEAN]                        \* os.walk finds ffmpeg[.exe]

\* the steps after the directory exists (the outer try block); `made` is
\* whether os.makedirs created it
InstallInTry(path, env, ffmpeg_url, made) ==
    LET r(ret, p) == [ret |-> ret, PATH |-> p, made_dir |-> made,
                      retrieve_called |-> TRUE]
    IN  IF env.retrieve = "URLError" THEN r("False", path)
        ELSE IF env.retrieve = "raises" THEN r("False", path)
        ELSE IF ~(EndsWith(ffmpeg_url, <<".","z","i","p">>)
                  \/ EndsWith(ffmpeg_url, <<".","t","a","r",".","x","z">>))
             THEN r("False", path)
        ELSE IF env.extract = "raises" THEN r("False", path)
        ELSE IF ~env.found THEN r("False", path)
        ELSE r("True", Append(path, ExtractedFfmpegDir))

\* download_and_install_ffmpeg: what it returns ("True", "False", or
\* "raised" when an exception leaves it), the search path afterwards, and
\* whether it created the directory and called urlretrieve
download_and_install_ffmpeg(path, env) ==
    LET ffmpeg_url ==
            CASE env.system = "windows" -> WindowsUrl
              [] env.system = "linux"   -> LinuxUrl
              [] env.system = "darwin"  -> DarwinUrl
              [] OTHER                  -> <<>>
    IN  IF ffmpeg_url = <<>> THEN
            [ret |-> "False", PATH |-> path, made_dir |-> FALSE,
             retrieve_called |-> FALSE]
        ELSE IF ~env.dir_there /\ env.makedirs = "raises" THEN
            [ret |-> "raised", PATH |-> path, made_dir |-> FALSE,
             retrieve_called |-> FALSE]
        ELSE InstallInTry(path, env, ffmpeg_url, ~env.dir_there)

-----------------------------------------------------------------------------
(* start_download's computations *)

\* QUALITY_OPTIONS and FORMAT_OPTIONS, the items of the two dropdowns
QUALITY_OPTIONS == <<"Best Available (Default)", "Best Video + Audio",
                     "Best Video Only", "Best Audio Only", "720p", "1080p", "4K">>
FORMAT_OPTIONS == <<"mp4", "mp3", "wav", "mov">>

Range(f) == {f[i] : i \in DOMAIN f}

\* get_format_option, of the format dropdown's current text
get_format_option(selected_format) ==
    IF selected_format = "mp3" THEN "mp3"
    ELSE IF selected_format = "wav" THEN "wav"
    ELSE IF selected_format = "mov" THEN "mov"
    ELSE "mp4"

ExtChars(ext) ==
    CASE ext = "mp3" -> <<"m","p","3">>
      [] ext = "wav" -> <<"w","a","v">>
      [] ext = "mov" -> <<"m","o","v">>
      [] OTHER       -> <<"m","p","4">>

\* re.sub(r'[\\/*?:"<>|]', "", title)
RECURSIVE Sanitize(_)
Sanitize(title) ==
    IF title = <<>> THEN <<>>
    ELSE IF Head(title) \in {"\\", "/", "*", "?", ":", "\"", "<", ">", "|"}
         THEN Sanitize(Tail(title))
         ELSE <<Head(title)>> \o Sanitize(Tail(title))

\* os.path.join(directory, name), with the POSIX separator
PathJoin(directory, name) ==
    IF directory = <<>> \/ directory[Len(directory)] = "/"
    THEN directory \o name
    ELSE directory \o <<"/">> \o name

DefaultTitle == <<"d","o","w","n","l","o","a","d","e","d","_","v","i","d","e","o">>
\* a text that stands for an absent dict key
Missing == <<"no key">>

\* the expected final path of lines 527-536: info.get('title', ...), the
\* extension of the export format, the sanitised title under the directory
expected_filepath(directory, info_title, export_format) ==
    LET title == IF info_title = Missing THEN DefaultTitle ELSE info_title
        ext == IF export_format \in {"mp3", "wav"} THEN export_format
               ELSE IF export_format = "mov" THEN "mov"
               ELSE "mp4"
    IN  PathJoin(directory, Sanitize(title) \o <<".">> \o ExtChars(ext))

OutTemplate == <<"%","(","t","i","t","l","e",")","s",".","%","(","e","x","t",")","s">>

\* the options of lines 571-601 handed to YoutubeDL. The quality dropdown's
\* text is read at line 504 and is not used afterwards.
ydl_opts(directory, format_choice, selected_quality, ffmpeg_location) ==
    LET base == [outtmpl |-> PathJoin(directory, OutTemplate),
                 quiet |-> TRUE, noprogress |-> TRUE,
                 ffmpeg_location |-> ffmpeg_location]
        audio(codec) == <<[key |-> "FFmpegExtractAudio", preferredcodec |-> codec,
                           preferredquality |-> "192"]>>
    IN  CASE format_choice = "mp3" ->
               [base |-> base, format |-> "bestaudio/best",
                postprocessors |-> audio("mp3")]
          [] format_choice = "wav" ->
               [base |-> base, format |-> "bestaudio/best",
                postprocessors |-> audio("wav")]
          [] format_choice = "mov" ->
               [base |-> base, format |-> "bestvideo+bestaudio/best",
                postprocessors |-> <<[key |-> "FFmpegVideoConvertor",
                                      preferedformat |-> "mov"]>>]
          [] OTHER ->
               [base |-> base, format |-> "bestvideo+bestaudio/best",
                postprocessors |-> <<>>]

-----------------------------------------------------------------------------
(* The progress hook's percentage *)

Digits == <<"0","1","2","3","4","5","6","7","8","9">>
IsDigit(c) == \E i \in 1..Len(Digits) : Digits[i] = c
DigitVal(c) == (CHOOSE i \in 1..Len(Digits) : Digits[i] = c) - 1

RECURSIVE StripPercent(_)
StripPercent(s) ==
    IF s /= <<>> /\ Head(s) = "%" THEN StripPercent(Tail(s))
    ELSE IF s /= <<>> /\ s[Len(s)] = "%" THEN StripPercent(SubSeq(s, 1, Len(s) - 1))
    ELSE s

RECURSIVE IntOfDigits(_, _)
IntOfDigits(s, acc) ==
    IF s = <<>> THEN acc ELSE IntOfDigits(Tail(s), 10 * acc + DigitVal(Head(s)))

\* int(float(text)) for the decimal notations modelled (digits with at most
\* one point, surrounding white space allowed); -1 for a ValueError
IntOfFloat(text) ==
    LET t == Strip(text)
        dots == {i \in 1..Len(t) : t[i] = "."}
        whole == IF dots = {} THEN t
                 ELSE SubSeq(t, 1, (CHOOSE i \in dots : TRUE) - 1)
        frac == IF dots = {} THEN <<>>
                ELSE SubSeq(t, (CHOOSE i \in dots : TRUE) + 1, Len(t))
    IN  IF /\ Cardinality(dots) <= 1
           /\ \A i \in 1..Len(t) : IsDigit(t[i]) \/ t[i] = "."
           /\ Len(whole) + Len(frac) > 0
        THEN IntOfDigits(whole, 0)
        ELSE -1

\* lines 727-731: d.get('_percent_str', '0.0%').strip('%'), then the parse
hook_percent(percent_str) ==
    LET text == IF percent_str = Missing THEN <<"0",".","0","%">> ELSE percent_str
        v == IntOfFloat(StripPercent(text))
    IN  IF v < 0 THEN 0 ELSE v

-----------------------------------------------------------------------------
(* The program: bounds and inputs *)

\* bounds of the model
MaxWorkers == 2     \* downloads started in one run of the program
MaxHooks == 1       \* progress-hook calls the library makes in one download

\* what the user types into the URL field and what the directory field shows
UrlInputs == { <<" ">>, <<"a",".","c","o","m">>,
               <<" ","x",".","c","o","m","/","v">> }
DirInputs == { <<>>, <<"d">> }

\* the title extract_info reports (Missing: the info has no 'title')
TitleInputs == { <<"a">>, <<"a","?">> }

\* the '_percent_str' of a 'downloading' callback
PercentInputs == { <<" ","4","2",".","5","%">> }

\* the dicts the library hands to the progress hook
HookInputs == [status : {"downloading"}, percent_str : PercentInputs]
              \cup {[status |-> "finished"]}

\* the items picked in the quality dropdown
QualityInputs == { "Best Audio Only", "4K" }

\* the items picked in the format dropdown
FormatInputs == { "mp3" }

\* how the library's download call ends
DownloadOutcomes == {"returns", "DownloadError", "Exception"}

\* the history file a run of the program may find
InitialFiles == { Absent,
                  json_dumps(<<expected_filepath(<<"d">>, <<"a">>, "mp4")>>) }

-----------------------------------------------------------------------------
(* The program: state *)

\* self.worker and self.thread: the worker created last, 0 for None
cur == Len(workers)

Top == stack[Len(stack)]

\* the main thread is in app.exec_(), in no handler: user input is accepted
MainIdle == pc = "running" /\ stack = <<>>

\* the main thread is in an event loop (app.exec_() or a modal box's own):
\* queued signals are delivered
InEventLoop == pc = "running" /\ (IF stack = <<>> THEN TRUE ELSE Top.f = "box")

\* QThread.isFinished(): run() has returned and the thread's event loop,
\* asked to quit, has exited
ThreadFinished(ws, i) == ws[i].pc \in {"done", "replaced"} /\ ws[i].quit

\* run() has been started and has not returned
RunActive(i) == workers[i].pc \notin {"done", "replaced"}

\* what `last` holds after a step that reports no result
NoResult == [op |-> "none"]

SetButtons(d, c, x) ==
    /\ download_button' = d
    /\ cancel_button' = c
    /\ delete_button' = x

\* the widgets as setup_ui leaves them
WidgetsAsBuilt ==
    /\ download_button = TRUE
    /\ cancel_button = FALSE
    /\ delete_button = TRUE
    /\ status_label = <<"Idle">>
    /\ progress_bar = 0

StartupVars == <<pc, exit_status, PATH, prompted, install_ret>>
ButtonVars == <<download_button, cancel_button, delete_button>>
WidgetVars == <<download_button, cancel_button, delete_button, status_label,
                progress_bar>>
HistoryVars == <<history_list, history_file>>
FnVars == <<fn_in, fn_out>>

Init ==
    /\ pc = "start"
    /\ exit_status = None
    /\ PATH \in { <<"/usr/bin">>, <<"/usr/bin", SystemFfmpegDir>> }
    /\ prompted = FALSE
    /\ install_ret = None
    /\ WidgetsAsBuilt
    /\ history_list = <<>>
    /\ history_file \in InitialFiles
    /\ workers = <<>>
    /\ queue = <<>>
    /\ stack = <<>>
    /\ last = NoResult
    /\ fn_in = <<>>
    /\ fn_out = <<>>

-----------------------------------------------------------------------------
(* Startup: main, YouTubeDownloader.__init__, check_ffmpeg *)

\* __init__ up to the prompt: setup_ui, load_history, check_ffmpeg. With
\* ffmpeg on the path main() goes on to show() and app.exec_().
construct_window ==
    /\ pc = "start"
    /\ history_list' = load_history(<<>>, history_file)
    /\ IF is_ffmpeg_installed(PATH)
       THEN pc' = "running" /\ prompted' = FALSE
       ELSE pc' = "prompt" /\ prompted' = TRUE
    /\ last' = NoResult
    /\ UNCHANGED <<exit_status, PATH, install_ret, WidgetVars, history_file,
                   workers, queue, stack, FnVars>>

\* a seeded fault: sys.exit(1) is left out after a failed installation
prompt_ffmpeg_installation_without_exit ==
    /\ pc = "prompt"
    /\ \E response \in {"Yes", "No"} :
         \/ /\ response = "Yes"
            /\ \E env \in InstallEnvs :
                 LET r == download_and_install_ffmpeg(PATH, env)
                 IN  /\ install_ret' = r.ret
                     /\ PATH' = r.PATH
                     /\ IF r.ret \in {"True", "False"}
                        THEN pc' = "running" /\ exit_status' = None
                        ELSE pc' = "exited" /\ exit_status' = "1"
            /\ last' = [op |-> "prompt", response |-> response]
         \/ /\ response = "No"
            /\ pc' = "exited"
            /\ exit_status' = "1"
            /\ last' = [op |-> "prompt", response |-> response]
            /\ UNCHANGED <<install_ret, PATH>>
    /\ UNCHANGED <<prompted, WidgetVars, HistoryVars, workers, queue, stack,
                   FnVars>>

\* prompt_ffmpeg_installation once the user has answered the box. Yes runs
\* the installer; sys.exit(1), or an exception leaving the installer, ends
\* the process with status 1 before main() reaches app.exec_().
prompt_ffmpeg_installation ==
    /\ pc = "prompt"
    /\ \E response \in {"Yes", "No"} :
         \/ /\ response = "Yes"
            /\ \E env \in InstallEnvs :
                 LET r == download_and_install_ffmpeg(PATH, env)
                 IN  /\ install_ret' = r.ret
                     /\ PATH' = r.PATH
                     /\ IF r.ret = "True"
                        THEN pc' = "running" /\ exit_status' = None
                        ELSE pc' = "exited" /\ exit_status' = "1"
            /\ last' = [op |-> "prompt", response |-> response]
         \/ /\ response = "No"
            /\ pc' = "exited"
            /\ exit_status' = "1"
            /\ last' = [op |-> "prompt", response |-> response]
            /\ UNCHANGED <<install_ret, PATH>>
    /\ UNCHANGED <<prompted, WidgetVars, HistoryVars, workers, queue, stack,
                   FnVars>>

-----------------------------------------------------------------------------
(* The main window's handlers *)

\* `if self.thread: self.thread.quit(); self.thread.wait()`: the thread
\* created last is asked to quit and the handler blocks until that thread
\* has finished. ws and stk are the workers and the stack the handler has
\* produced so far.
QuitAndWait(ws, stk) ==
    IF Len(ws) = 0
    THEN workers' = ws /\ stack' = stk
    ELSE /\ workers' = [ws EXCEPT ![Len(ws)].quit = TRUE]
         /\ stack' = IF ws[Len(ws)].pc = "done" THEN stk
                     ELSE Append(stk, [f |-> "wait", th |-> Len(ws)])

\* thread.wait() returns: the thread waited for has finished
wait_returns ==
    /\ pc = "running"
    /\ stack /= <<>>
    /\ Top.f = "wait"
    /\ ThreadFinished(workers, Top.th)
    /\ stack' = SubSeq(stack, 1, Len(stack) - 1)
    /\ last' = NoResult
    /\ UNCHANGED <<StartupVars, WidgetVars, HistoryVars, workers, queue, FnVars>>

\* platform_name = self.validate_url(url), for the URLs the field may hold
\* (a table, so that the function is applied once to each)
platform_name == [url \in {Strip(url_text) : url_text \in UrlInputs} |->
                    validate_url(url)]

\* a seeded fault: the platform check of lines 513-517 is skipped
start_download_rejects_empty_only(url, directory) ==
    url = <<>> \/ directory = <<>>

\* lines 506-517: the URL or the directory is empty, or the URL is of no
\* supported platform; each shows a warning box and returns
start_download_rejects(url, directory) ==
    url = <<>> \/ directory = <<>> \/ platform_name[url] = None

\* lines 604-605 rebind self.thread and self.worker: a previous worker whose
\* thread has finished is referenced by nothing any more, and of its record
\* only that it is finished remains
Replaced(ws) ==
    IF Len(ws) /= 0 /\ ThreadFinished(ws, Len(ws))
    THEN [ws EXCEPT ![Len(ws)] =
            [pc |-> "replaced", url |-> <<>>, format_choice |-> None,
             final_filepath |-> <<>>, downloader |-> None, quit |-> TRUE,
             interrupted |-> FALSE, hooks |-> 0, log |-> <<>>,
             outcome |-> None]]
    ELSE ws

\* the worker and thread of lines 604-612, run() yet to call the library
NewWorker(url, format_choice, path, opts) ==
    [pc |-> "download", url |-> url, format_choice |-> format_choice,
     final_filepath |-> path, downloader |-> opts, quit |-> FALSE,
     interrupted |-> FALSE, hooks |-> 0, log |-> <<>>, outcome |-> None]

\* start_download, the Download button's handler, for the texts of the URL
\* and directory fields. Its other inputs: the two dropdowns' items, what
\* extract_info does (raises, or reports a title), whether the expected
\* file exists, the answer to "File Exists", whether os.remove succeeds.
\* When the previous QThread has not finished, line 604 drops the last
\* reference to a running thread: the process aborts (Qt's "Destroyed while
\* thread is still running") or, where the object outlives the rebinding,
\* the old thread keeps running beside the new one.
\* The handler's own message boxes are modal and it is one step here: no
\* slot disables the Download button, so a slot that runs while such a box
\* is open could as well have run before the click.
start_download_with(url_text, dir_text) ==
    LET url == Strip(url_text)
        directory == Strip(dir_text)
        rec(result, calls) ==
            [op |-> "start_download", result |-> result, calls |-> calls]
    IN
    /\ MainIdle
    /\ download_button
    /\ \/ \* lines 506-517: a warning box, then return
          /\ start_download_rejects(url, directory)
          /\ last' = rec("rejected", {})
          /\ UNCHANGED <<StartupVars, WidgetVars, HistoryVars, workers,
                         queue, stack, FnVars>>
       \/ \* lines 537-562: extract_info raises; or the file exists and
          \* the user answers No, or answers Yes and os.remove raises
          /\ ~start_download_rejects(url, directory)
          /\ last' = rec("returned_early", {"extract_info"})
          /\ UNCHANGED <<StartupVars, WidgetVars, HistoryVars, workers,
                         queue, stack, FnVars>>
       \/ \* lines 564-612: no file in the way, or it was removed
          /\ ~start_download_rejects(url, directory)
          /\ cur < MaxWorkers
          /\ \E selected_format \in FormatInputs,
                selected_quality \in QualityInputs,
                info_title \in TitleInputs :
               LET export_format == get_format_option(selected_format)
                   path == expected_filepath(directory, info_title, export_format)
                   opts == ydl_opts(directory, export_format, selected_quality,
                                    which_ffmpeg(PATH))
                   overlap == cur /= 0 /\ ~ThreadFinished(workers, cur)
               IN  /\ SetButtons(FALSE, TRUE, FALSE)
                   /\ status_label' = <<"Starting download from", platform_name[url]>>
                   /\ progress_bar' = 0
                   /\ \/ /\ workers' = Append(Replaced(workers),
                                NewWorker(url, export_format, path, opts))
                         /\ last' = rec("started", {"extract_info", "YoutubeDL"})
                         /\ UNCHANGED <<pc, exit_status>>
                      \/ /\ overlap
                         /\ pc' = "aborted"
                         /\ exit_status' = "SIGABRT"
                         /\ last' = rec("aborted", {"extract_info", "YoutubeDL"})
                         /\ UNCHANGED workers
          /\ UNCHANGED <<PATH, prompted, install_ret, HistoryVars, queue,
                         stack, FnVars>>

start_download ==
    \E url_text \in UrlInputs, dir_text \in DirInputs :
        start_download_with(url_text, dir_text)

\* a seeded fault: cancelling does not re-enable the Delete File button
cancel_download_without_delete ==
    /\ MainIdle
    /\ cancel_button
    /\ \E lib \in {"returns", "raises_abort", "raises_logged"} :
         /\ last' = [op |-> "cancel_download", result |-> lib]
         /\ IF cur = 0 THEN
                UNCHANGED <<pc, exit_status, WidgetVars, workers, stack>>
            ELSE IF lib = "returns" THEN
                /\ status_label' = <<"Download canceled.">>
                /\ SetButtons(TRUE, FALSE, delete_button)
                /\ QuitAndWait([workers EXCEPT ![cur].interrupted = TRUE], stack)
                /\ UNCHANGED <<pc, exit_status, progress_bar>>
            ELSE IF lib = "raises_abort" THEN
                /\ pc' = "aborted"
                /\ exit_status' = "SIGABRT"
                /\ UNCHANGED <<WidgetVars, workers, stack>>
            ELSE
                UNCHANGED <<pc, exit_status, WidgetVars, workers, stack>>
    /\ UNCHANGED <<PATH, prompted, install_ret, HistoryVars, queue, FnVars>>

\* cancel_download, the Cancel button's handler. process_interrupt is
\* the library's: it returns, or it raises, and an exception leaving a
\* slot either aborts the process or is printed and dropped, by the
\* binding's version.
cancel_download ==
    /\ MainIdle
    /\ cancel_button
    /\ \E lib \in {"returns", "raises_abort", "raises_logged"} :
         /\ last' = [op |-> "cancel_download", result |-> lib]
         /\ IF cur = 0 THEN
                UNCHANGED <<pc, exit_status, WidgetVars, workers, stack>>
            ELSE IF lib = "returns" THEN
                /\ status_label' = <<"Download canceled.">>
                /\ SetButtons(TRUE, FALSE, TRUE)
                /\ QuitAndWait([workers EXCEPT ![cur].interrupted = TRUE], stack)
                /\ UNCHANGED <<pc, exit_status, progress_bar>>
            ELSE IF lib = "raises_abort" THEN
                /\ pc' = "aborted"
                /\ exit_status' = "SIGABRT"
                /\ UNCHANGED <<WidgetVars, workers, stack>>
            ELSE
                UNCHANGED <<pc, exit_status, WidgetVars, workers, stack>>
    /\ UNCHANGED <<PATH, prompted, install_ret, HistoryVars, queue, FnVars>>

\* update_progress, the slot of the progress signal
update_progress ==
    /\ InEventLoop
    /\ queue /= <<>>
    /\ Head(queue).sig = "progress"
    /\ queue' = Tail(queue)
    /\ progress_bar' = Head(queue).arg
    /\ status_label' = <<"Downloading...", Head(queue).arg>>
    /\ last' = NoResult
    /\ UNCHANGED <<StartupVars, ButtonVars, HistoryVars, workers, stack, FnVars>>

\* handle_error, the slot of the error signal, up to its modal box (line
\* 633): the box runs an event loop of its own until it is dismissed
handle_error_box ==
    /\ InEventLoop
    /\ queue /= <<>>
    /\ Head(queue).sig = "error"
    /\ queue' = Tail(queue)
    /\ stack' = Append(stack, [f |-> "box", th |-> 0])
    /\ last' = NoResult
    /\ UNCHANGED <<StartupVars, WidgetVars, HistoryVars, workers, FnVars>>

\* handle_error once the box is dismissed (lines 634-641)
handle_error ==
    /\ pc = "running"
    /\ stack /= <<>>
    /\ Top.f = "box"
    /\ status_label' = <<"Download failed.">>
    /\ SetButtons(TRUE, FALSE, TRUE)
    /\ QuitAndWait(workers, SubSeq(stack, 1, Len(stack) - 1))
    /\ last' = NoResult
    /\ UNCHANGED <<StartupVars, progress_bar, HistoryVars, queue, FnVars>>

\* a seeded fault: the item is added and the file is not rewritten
add_to_history_unsaved ==
    /\ InEventLoop
    /\ queue /= <<>>
    /\ Head(queue).sig = "download_complete"
    /\ queue' = Tail(queue)
    /\ history_list' = Append(history_list, Head(queue).arg)
    /\ SetButtons(TRUE, FALSE, TRUE)
    /\ status_label' = <<"Download finished.">>
    /\ last' = [op |-> "add_to_history", io |-> "ok"]
    /\ UNCHANGED <<StartupVars, progress_bar, history_file, workers, stack, FnVars>>

\* add_to_history, the slot of the download_complete signal
add_to_history ==
    /\ InEventLoop
    /\ queue /= <<>>
    /\ Head(queue).sig = "download_complete"
    /\ queue' = Tail(queue)
    /\ history_list' = Append(history_list, Head(queue).arg)
    /\ \E io \in IoInputs :
         /\ history_file' = save_history(history_list', history_file, io)
         /\ last' = [op |-> "add_to_history", io |-> io]
    /\ SetButtons(TRUE, FALSE, TRUE)
    /\ status_label' = <<"Download finished.">>
    /\ UNCHANGED <<StartupVars, progress_bar, workers, stack, FnVars>>

\* download_finished, the slot of the finished signal
download_finished ==
    /\ InEventLoop
    /\ queue /= <<>>
    /\ Head(queue).sig = "finished"
    /\ queue' = Tail(queue)
    /\ status_label' = <<"Download finished.">>
    /\ SetButtons(TRUE, FALSE, TRUE)
    /\ QuitAndWait(workers, stack)
    /\ last' = NoResult
    /\ UNCHANGED <<StartupVars, progress_bar, HistoryVars, FnVars>>

\* list.takeItem(row)
RemoveAt(s, i) == SubSeq(s, 1, i - 1) \o SubSeq(s, i + 1, Len(s))

\* a seeded fault: an entry whose file is gone is removed from the history
delete_selected_file_drops_missing(sel, exists, remove_raises) ==
    /\ MainIdle
    /\ delete_button
    /\ sel \in 0..Len(history_list)
    /\ IF sel /= 0 /\ (~exists \/ ~remove_raises)
       THEN /\ history_list' = RemoveAt(history_list, sel)
            /\ \E io \in IoInputs :
                 /\ history_file' = save_history(history_list', history_file, io)
                 /\ last' = [op |-> "delete_selected_file", result |-> "removed",
                             io |-> io]
       ELSE /\ last' = [op |-> "delete_selected_file", result |-> "kept",
                        io |-> "none"]
            /\ UNCHANGED HistoryVars
    /\ UNCHANGED <<StartupVars, WidgetVars, workers, queue, stack, FnVars>>

\* delete_selected_file, the Delete File button's handler, for the selected
\* row (the list keeps Qt's default single selection; 0 for none), whether
\* os.path.exists finds the file of that row and whether os.remove raises.
\* With no selection, a missing file or a failed removal a message box is
\* shown and nothing else is done (lines 687-689, 699-706).
delete_selected_file_with(sel, exists, remove_raises) ==
    /\ MainIdle
    /\ delete_button
    /\ sel \in 0..Len(history_list)
    /\ IF sel /= 0 /\ exists /\ ~remove_raises
       THEN \* lines 695-698
            /\ history_list' = RemoveAt(history_list, sel)
            /\ \E io \in IoInputs :
                 /\ history_file' = save_history(history_list', history_file, io)
                 /\ last' = [op |-> "delete_selected_file", result |-> "removed",
                             io |-> io]
       ELSE /\ last' = [op |-> "delete_selected_file", result |-> "kept",
                        io |-> "none"]
            /\ UNCHANGED HistoryVars
    /\ UNCHANGED <<StartupVars, WidgetVars, workers, queue, stack, FnVars>>

delete_selected_file ==
    \E sel \in 0..Len(history_list), exists \in BOOLEAN,
       remove_raises \in BOOLEAN :
        delete_selected_file_with(sel, exists, remove_raises)

-----------------------------------------------------------------------------
(* DownloadWorker.run, in the worker's thread *)

\* self.<signal>.emit(arg) by worker i: queued for the main thread. ws is
\* the workers as the step has changed them so far.
Emit(ws, i, sig, arg) ==
    /\ workers' = [ws EXCEPT ![i].log = Append(@, sig)]
    /\ queue' = Append(queue, [sig |-> sig, arg |-> arg])

\* progress_hook(d), called by the library during download()
progress_hook(i) ==
    /\ pc = "running"
    /\ workers[i].pc = "download"
    /\ workers[i].hooks < MaxHooks
    /\ \E d \in HookInputs :
         LET ws == [workers EXCEPT ![i].hooks = @ + 1]
         IN  IF d.status = "downloading" THEN
                 Emit(ws, i, "progress", hook_percent(d.percent_str))
             ELSE IF d.status = "finished" THEN
                 Emit(ws, i, "download_complete", workers[i].final_filepath)
             ELSE workers' = ws /\ UNCHANGED queue
    /\ last' = NoResult
    /\ UNCHANGED <<StartupVars, WidgetVars, HistoryVars, stack, FnVars>>

\* a seeded fault: DownloadError is caught and not reported
download_ends_silent(i) ==
    /\ pc = "running"
    /\ workers[i].pc = "download"
    /\ \E outcome \in DownloadOutcomes :
         LET ws == [workers EXCEPT ![i].pc = "finally", ![i].outcome = outcome]
         IN  IF outcome = "Exception"
             THEN Emit(ws, i, "error", outcome)
             ELSE workers' = ws /\ UNCHANGED queue
    /\ last' = NoResult
    /\ UNCHANGED <<StartupVars, WidgetVars, HistoryVars, stack, FnVars>>

\* lines 740-746: self.downloader.download([self.url]) returns or raises,
\* and the except clause that matches emits the error signal
download_ends(i) ==
    /\ pc = "running"
    /\ workers[i].pc = "download"
    /\ \E outcome \in DownloadOutcomes :
         LET ws == [workers EXCEPT ![i].pc = "finally", ![i].outcome = outcome]
         IN  IF outcome = "returns"
             THEN workers' = ws /\ UNCHANGED queue
             ELSE Emit(ws, i, "error", outcome)
    /\ last' = NoResult
    /\ UNCHANGED <<StartupVars, WidgetVars, HistoryVars, stack, FnVars>>

\* a seeded fault: finished is emitted a second time when an error was
emit_finished_twice(i) ==
    /\ pc = "running"
    /\ workers[i].pc = "finally"
    /\ workers' = [workers EXCEPT
                     ![i].pc = "emitted",
                     ![i].log = IF workers[i].outcome = "returns"
                                THEN Append(@, "finished")
                                ELSE @ \o <<"finished", "finished">>]
    /\ queue' = Append(queue, [sig |-> "finished", arg |-> None])
    /\ last' = NoResult
    /\ UNCHANGED <<StartupVars, WidgetVars, HistoryVars, stack, FnVars>>

\* lines 747-749: the finally clause
emit_finished(i) ==
    /\ pc = "running"
    /\ workers[i].pc = "finally"
    /\ Emit([workers EXCEPT ![i].pc = "emitted"], i, "finished", None)
    /\ last' = NoResult
    /\ UNCHANGED <<StartupVars, WidgetVars, HistoryVars, stack, FnVars>>

\* run() returns to the thread, whose event loop exits once asked to quit
run_returns(i) ==
    /\ pc = "running"
    /\ workers[i].pc = "emitted"
    /\ workers' = [workers EXCEPT ![i].pc = "done"]
    /\ last' = NoResult
    /\ UNCHANGED <<StartupVars, WidgetVars, HistoryVars, queue, stack, FnVars>>

-----------------------------------------------------------------------------
(* The program *)

Next ==
    \/ construct_window
    \/ prompt_ffmpeg_installation
    \/ start_download
    \/ cancel_download
    \/ delete_selected_file
    \/ update_progress
    \/ handle_error_box
    \/ handle_error
    \/ add_to_history
    \/ download_finished
    \/ wait_returns
    \/ \E i \in 1..Len(workers) :
         \/ progress_hook(i)
         \/ download_ends(i)
         \/ emit_finished(i)
         \/ run_returns(i)

Spec == Init /\ [][Next]_vars

-----------------------------------------------------------------------------
(* The functions on their own: each specification draws a function's
   arguments in its initial state and applies the function to them *)

\* the state in which a function is applied on its own: no window yet
FnInit ==
    /\ pc = "fn"
    /\ exit_status = None
    /\ prompted = FALSE
    /\ install_ret = None
    /\ WidgetsAsBuilt
    /\ workers = <<>>
    /\ queue = <<>>
    /\ stack = <<>>
    /\ last = NoResult
    /\ fn_out = <<>>

\* the texts validate_url is applied to: up to MaxParts of these pieces
MaxParts == 3
UrlParts == { <<"h","t","t","p",":","/","/">>,
              <<"h","t","t","p","s",":","/","/">>,
              <<"H","T","T","P",":","/","/">>,
              <<"x",".","c","o","m">>,
              <<"X",".","C","o","m">>,
              <<"y","o","u","t","u",".","b","e">>,
              <<"w","w","w",".","y","o","u","t","u","b","e",".","c","o","m">>,
              <<"t","w","i","t","t","e","r",".","c","o","m">>,
              <<"f","b",".","w","a","t","c","h">>,
              <<"m",".","F","a","c","e","b","o","o","k",".","c","o","m">>,
              <<"a",".","c","o","m">>,
              <<":">>, <<"/">>, <<" ">>, <<"@">> }

RECURSIVE UrlTexts(_)
UrlTexts(n) ==
    IF n = 0 THEN { <<>> }
    ELSE LET shorter == UrlTexts(n - 1)
         IN  shorter \cup { p \o t : p \in UrlParts, t \in shorter }

InitUrl ==
    /\ FnInit
    /\ PATH = <<"/usr/bin">>
    /\ history_list = <<>>
    /\ history_file = Absent
    /\ fn_in \in { <<url>> : url \in UrlTexts(MaxParts) }

\* platform = self.validate_url(url)
call_validate_url ==
    /\ pc = "fn"
    /\ fn_out = <<>>
    /\ fn_out' = <<validate_url(fn_in[1])>>
    /\ UNCHANGED <<StartupVars, WidgetVars, HistoryVars, workers, queue, stack,
                   last, fn_in>>

NextUrl == call_validate_url

SpecUrl == InitUrl /\ [][NextUrl]_vars

\* the installer: fn_in holds what the system, the file system and the
\* network do, and the search path before the call
InitFfmpeg ==
    /\ FnInit
    /\ PATH \in { <<"/usr/bin">>, <<"/usr/bin", SystemFfmpegDir>> }
    /\ history_list = <<>>
    /\ history_file = Absent
    /\ \E env \in InstallEnvs : fn_in = <<env, PATH>>

\* download_and_install_ffmpeg(), with os.environ["PATH"] as it leaves it
call_download_and_install_ffmpeg ==
    /\ pc = "fn"
    /\ fn_out = <<>>
    /\ LET r == download_and_install_ffmpeg(PATH, fn_in[1])
       IN  /\ fn_out' = <<r>>
           /\ PATH' = r.PATH
    /\ UNCHANGED <<pc, exit_status, prompted, install_ret, WidgetVars,
                   HistoryVars, workers, queue, stack, last, fn_in>>

NextFfmpeg == call_download_and_install_ffmpeg

SpecFfmpeg == InitFfmpeg /\ [][NextFfmpeg]_vars

\* the options: fn_in holds the directory, the format dropdown's item and
\* the quality dropdown's items of two invocations that differ in nothing else
InitOpts ==
    /\ FnInit
    /\ PATH \in { <<"/usr/bin", SystemFfmpegDir>> }
    /\ history_list = <<>>
    /\ history_file = Absent
    /\ \E directory \in {<<"d">>, <<"d","/">>},
          selected_format \in Range(FORMAT_OPTIONS),
          q1 \in Range(QUALITY_OPTIONS), q2 \in Range(QUALITY_OPTIONS) :
         fn_in = <<directory, selected_format, q1, q2>>

\* lines 503-504 and 570-601 of two invocations of start_download
call_ydl_opts ==
    /\ pc = "fn"
    /\ fn_out = <<>>
    /\ LET format_choice == get_format_option(fn_in[2])
       IN  fn_out' = << ydl_opts(fn_in[1], format_choice, fn_in[3],
                                 which_ffmpeg(PATH)),
                        ydl_opts(fn_in[1], format_choice, fn_in[4],
                                 which_ffmpeg(PATH)) >>
    /\ UNCHANGED <<StartupVars, WidgetVars, HistoryVars, workers, queue, stack,
                   last, fn_in>>

NextOpts == call_ydl_opts

SpecOpts == InitOpts /\ [][NextOpts]_vars


\* the history across a restart: a list is saved, the program is started
\* again and loads the file into its empty list
MaxListLen == 2
PathInputs == { <<"a">>, <<"b","\"">>, <<"c","\\","n">>, <<"d","\n","\t">>,
                <<"\\">>, <<" ","/","e">>, <<>> }

RECURSIVE PathLists(_)
PathLists(n) ==
    IF n = 0 THEN { <<>> }
    ELSE LET shorter == PathLists(n - 1)
         IN  shorter \cup { <<p>> \o l : p \in PathInputs, l \in shorter }

\* the file before the save: none, or text that json.load rejects, or a
\* JSON string, which json.load accepts
FileInputs == { Absent, <<>>, <<"[">>,
                <<"[","\"","a","\"",",","]">>,
                <<"\"","a","b","\"">> }

InitHist ==
    /\ FnInit
    /\ PATH = <<"/usr/bin">>
    /\ history_list \in PathLists(MaxListLen)
    /\ history_file \in FileInputs
    /\ fn_in = <<>>

\* self.save_history(): fn_in keeps the list that was saved
call_save_history ==
    /\ pc = "fn"
    /\ last = NoResult
    /\ \E io \in IoOutcomes :
         /\ history_file' = save_history(history_list, history_file, io)
         /\ last' = [op |-> "save_history", io |-> io, saved |-> io = "ok"]
    /\ fn_in' = <<history_list>>
    /\ UNCHANGED <<StartupVars, WidgetVars, history_list, workers, queue,
                   stack, fn_out>>

\* the next start of the program: self.load_history() on the new, empty list
call_load_history ==
    /\ pc = "fn"
    /\ last.op \in {"none", "save_history"}
    /\ history_list' = load_history(<<>>, history_file)
    /\ last' = [op |-> "load_history", io |-> "none",
                saved |-> IF last.op = "save_history" THEN last.saved ELSE FALSE]
    /\ UNCHANGED <<StartupVars, WidgetVars, history_file, workers, queue,
                   stack, FnVars>>

NextHist == call_save_history \/ call_load_history

SpecHist == InitHist /\ [][NextHist]_vars

-----------------------------------------------------------------------------
(* Properties *)

CountIn(s, x) == Cardinality({i \in 1..Len(s) : s[i] = x})

\* the workers whose run() has been started and has not returned
Running == {i \in 1..Len(workers) : RunActive(i)}

\* C1: at most one download worker is running at any time: start_download
\* never creates and starts a worker while the run() of a worker started
\* before has not returned. Workers come into being in start_download only,
\* so a state with two running workers is the state that such a start leaves.
C1_AtMostOneWorkerRunning == Cardinality(Running) <= 1

\* C2: finished is emitted exactly once by every run and is the last
\* notification of the run, however the download call ended: a run past its
\* finally clause has one finished in its log, at the end, and a run before
\* it has none.
C2_FinishedOnceAndLast ==
    \A i \in 1..Len(workers) :
        LET w == workers[i]
        IN  /\ w.pc \in {"emitted", "done"} =>
                 /\ w.log /= <<>>
                 /\ w.log[Len(w.log)] = "finished"
                 /\ CountIn(w.log, "finished") = 1
            /\ w.pc \in {"download", "finally"} => CountIn(w.log, "finished") = 0

\* a run that ended with an exception other than DownloadError, after a
\* callback, has returned with error and finished emitted in this order
C2_Witness ==
    \E i \in 1..Len(workers) :
        /\ workers[i].pc = "done"
        /\ workers[i].outcome = "Exception"
        /\ Len(workers[i].log) = 3
        /\ SubSeq(workers[i].log, 2, 3) = <<"error", "finished">>

\* C3: an exception of the download call never leaves run: a run past the
\* call has emitted exactly one error if the call raised and none if it
\* returned, and a run still in the call has emitted none.
C3_OneErrorIffRaised ==
    \A i \in 1..Len(workers) :
        LET w == workers[i]
        IN  /\ w.pc \in {"finally", "emitted", "done"} =>
                 CountIn(w.log, "error") = IF w.outcome = "returns" THEN 0 ELSE 1
            /\ w.pc = "download" => CountIn(w.log, "error") = 0

\* a run whose download call raised DownloadError has returned normally,
\* with one error emitted
C3_Witness ==
    \E i \in 1..Len(workers) :
        /\ workers[i].pc = "done"
        /\ workers[i].outcome = "DownloadError"
        /\ CountIn(workers[i].log, "error") = 1

\* <<the list of strings the history file holds>>, and <<>> for a file that
\* holds no such list
StoredList ==
    LET e == json_loads(history_file)
    IN  IF history_file /= Absent /\ e.ok /\ e.val.t = "list"
           /\ \A i \in 1..Len(e.val.v) : e.val.v[i].t = "str"
        THEN <<[i \in 1..Len(e.val.v) |-> e.val.v[i].v]>>
        ELSE <<>>

\* C4: the file is rewritten on every mutation of the list: after an
\* add_to_history or a successful deletion whose write succeeded, and in
\* every later state, the JSON list in the file is the list in memory,
\* entry by entry. (The file exists from the first write on; a file found
\* at startup has been loaded once the window is constructed.)
C4_FileEqualsList ==
    /\ (last.op = "add_to_history" /\ last.io = "ok") =>
           StoredList = <<history_list>>
    /\ (last.op = "delete_selected_file" /\ last.result = "removed"
          /\ last.io = "ok") => StoredList = <<history_list>>
    /\ (pc /= "start" /\ history_file /= Absent) => StoredList = <<history_list>>

\* an entry has been added behind a different one and the file rewritten
C4_Witness ==
    /\ last.op = "add_to_history"
    /\ last.io = "ok"
    /\ Len(history_list) = 2
    /\ history_list[1] /= history_list[2]


\* C5: the history survives a restart: when a list has been saved and the
\* write succeeded, the load of the next start leaves exactly that list, in
\* order and multiplicity; and when the file is absent or is not JSON, the
\* load leaves the list empty.
C5_SaveLoadRoundTrip ==
    last.op = "load_history" =>
        /\ last.saved => history_list = fn_in[1]
        /\ (history_file = Absent \/ ~json_loads(history_file).ok) =>
               history_list = <<>>

\* two different paths, one with a backslash, were saved and loaded again
C5_Witness ==
    /\ last.op = "load_history"
    /\ last.saved
    /\ Len(history_list) = 2
    /\ history_list[1] /= history_list[2]
    /\ \E i \in 1..2 : Contains(history_list[i], <<"\\">>)

\* the host as the claim words it: the lower-cased longest run of characters
\* other than ':', '/' and white space behind an optional leading 'http://'
\* or 'https://'
RECURSIVE ClaimRun(_)
ClaimRun(s) ==
    IF s = <<>> \/ Head(s) \in {":", "/", " ", "\t", "\n"} THEN <<>>
    ELSE <<Head(s)>> \o ClaimRun(Tail(s))

ClaimHost(url) ==
    LET http == <<"h","t","t","p",":","/","/">>
        https == <<"h","t","t","p","s",":","/","/">>
        rest == IF Len(url) >= 7 /\ SubSeq(url, 1, 7) = http
                THEN SubSeq(url, 8, Len(url))
                ELSE IF Len(url) >= 8 /\ SubSeq(url, 1, 8) = https
                THEN SubSeq(url, 9, Len(url))
                ELSE url
    IN  Lower(ClaimRun(rest))

\* the table keys that occur in the host, by their place in the table
ClaimKeys(host) ==
    {k \in 1..Len(SUPPORTED_PLATFORMS) :
        \E i \in 1..Len(host) :
            /\ i + Len(SUPPORTED_PLATFORMS[k].key) - 1 <= Len(host)
            /\ SubSeq(host, i, i + Len(SUPPORTED_PLATFORMS[k].key) - 1)
                 = SUPPORTED_PLATFORMS[k].key}

\* C6: validate_url returns the name of the first table key, in table
\* order, that is a substring of the host, None exactly when the host is
\* empty or holds no key, and nothing but 'YouTube', 'X (Twitter)',
\* 'Facebook' or None.
C6_ValidateUrlIsSubstringMatch ==
    fn_out /= <<>> =>
        LET keys == ClaimKeys(ClaimHost(fn_in[1]))
        IN  /\ fn_out[1] \in {"YouTube", "X (Twitter)", "Facebook", None}
            /\ (fn_out[1] = None) <=> (keys = {})
            /\ keys /= {} =>
                 fn_out[1] = SUPPORTED_PLATFORMS[
                                CHOOSE k \in keys : \A j \in keys : k <= j].name

\* a host in capitals that holds two keys, the later one in the table first
C6_Witness ==
    /\ fn_out = <<"YouTube">>
    /\ Lower(fn_in[1]) /= fn_in[1]
    /\ Cardinality(ClaimKeys(ClaimHost(fn_in[1]))) >= 2
    /\ Contains(ClaimHost(fn_in[1]), <<"x",".","c","o","m","y">>)

\* the inputs the claim names: the trimmed URL or directory is empty, or
\* validate_url returns None for the trimmed URL
ClaimInvalid(url_text, dir_text) ==
    \/ Strip(url_text) = <<>>
    \/ Strip(dir_text) = <<>>
    \/ validate_url(Strip(url_text)) = None

ClaimInvalidInputs ==
    {in \in UrlInputs \X DirInputs : ClaimInvalid(in[1], in[2])}

\* C7: start_download on an empty URL, an empty directory or a URL of no
\* supported platform calls neither extract_info nor download, creates no
\* worker or thread, and leaves the buttons, the status label and the
\* progress bar as they were. (Only a step of start_download sets last.op
\* to "start_download".)
C7_InvalidInputStartsNothing ==
    [][last'.op = "start_download" =>
         \A in \in ClaimInvalidInputs :
            start_download_with(in[1], in[2])
            => /\ UNCHANGED <<ButtonVars, status_label, progress_bar, workers>>
               /\ last'.calls = {}]_vars

\* start_download has returned at one of its three warnings
C7_Witness ==
    /\ last.op = "start_download"
    /\ last.result = "rejected"
    /\ last.calls = {}
    /\ workers = <<>>


\* C8: the quality chosen is reflected in the options handed to YoutubeDL:
\* two invocations that differ in the quality dropdown's item only pass
\* different format options.
C8_QualityChangesOptions ==
    (fn_out /= <<>> /\ fn_in[3] /= fn_in[4]) =>
        fn_out[1].format /= fn_out[2].format

\* C9: the window reaches its event loop only with ffmpeg available: found
\* on the search path at startup, no prompt is shown; absent, the user is
\* prompted, and the event loop is reached only after the user accepted and
\* download_and_install_ffmpeg returned True; after a refusal or a return
\* of False the process has exited with status 1 and has started no download.
C9_UsableOnlyWithFfmpeg ==
    /\ pc /= "start" => (prompted <=> SystemFfmpegDir \notin Range(PATH))
    /\ (pc \in {"running", "aborted"} /\ prompted) => install_ret = "True"
    /\ (prompted /\ pc /= "prompt" /\ install_ret \in {None, "False"}) =>
           pc = "exited"
    /\ pc = "exited" => /\ exit_status = "1"
                        /\ install_ret /= "True"
                        /\ workers = <<>>

\* a download runs in a window that was opened after the prompt
C9_Witness ==
    /\ pc = "running"
    /\ prompted
    /\ install_ret = "True"
    /\ workers /= <<>>

\* C10: download_and_install_ffmpeg returns True if and only if it appended
\* the directory of the located executable to PATH; every failure returns
\* False and leaves PATH as it was; on an unsupported system no directory
\* is created and nothing is downloaded.
C10_InstallerReturnsFalseOnFailure ==
    fn_out /= <<>> =>
        LET r == fn_out[1]
            env == fn_in[1]
            before == fn_in[2]
        IN  /\ (r.ret = "True") <=> (PATH = Append(before, ExtractedFfmpegDir))
            /\ r.ret /= "True" => (r.ret = "False" /\ PATH = before)
            /\ env.system \notin {"windows", "linux", "darwin"} =>
                   (~r.made_dir /\ ~r.retrieve_called)

\* the download of worker i is in progress and the window cannot yet have
\* handled its finished notification: the worker has not emitted it, and
\* the user has not cancelled the download
InProgress(i) ==
    /\ workers[i].pc \in {"download", "finally"}
    /\ ~workers[i].interrupted

\* C11: while the download started last is in progress (from start_download
\* until the window has handled the worker's finished notification, or a
\* cancel), the Download and Delete File buttons are disabled and the Cancel
\* button is enabled, whatever progress, download_complete and error
\* notifications have been handled in between.
C11_ButtonsDisabledDuringDownload ==
    (pc = "running" /\ cur /= 0 /\ InProgress(cur)) =>
        /\ ~download_button
        /\ cancel_button
        /\ ~delete_button

-----------------------------------------------------------------------------
(* The program under the scheduling the threads and the event loop give *)

\* a queued notification at the head of the queue is delivered to its slot
Deliver ==
    \/ update_progress
    \/ handle_error_box
    \/ add_to_history
    \/ download_finished

\* The library's download call returns or raises, a worker thread that can
\* take its next step takes it, an event loop delivers what is queued, the
\* error box is dismissed, and a wait on a finished thread returns. What
\* the user does and what the library reports to the hook is left open.
Fairness ==
    /\ WF_vars(Deliver)
    /\ WF_vars(handle_error)
    /\ WF_vars(wait_returns)
    /\ \A i \in 1..MaxWorkers :
         /\ WF_vars(i <= Len(workers) /\ download_ends(i))
         /\ WF_vars(i <= Len(workers) /\ emit_finished(i))
         /\ WF_vars(i <= Len(workers) /\ run_returns(i))

SpecFair == Spec /\ Fairness

\* start_download has just started worker i
JustStarted(i) ==
    /\ last.op = "start_download"
    /\ last.result = "started"
    /\ cur = i

\* the window is idle again and the thread of worker i has been asked to
\* quit and is no longer running
CleanedUp(i) ==
    /\ i <= Len(workers)
    /\ download_button
    /\ ~cancel_button
    /\ ThreadFinished(workers, i)

\* C12: every started download is eventually cleaned up: once
\* start_download has started a worker, the window (as long as the process
\* lives) eventually reaches a state in which the Download button is
\* enabled, the Cancel button is disabled, and the thread of that worker
\* has been asked to quit and is no longer running.
C12_StartedIsEventuallyCleanedUp ==
    \A i \in 1..MaxWorkers :
        JustStarted(i) ~> (CleanedUp(i) \/ pc /= "running")

-----------------------------------------------------------------------------
(* Properties of the window's widgets *)

\* C13: the three action buttons are consistent in every state the window
\* is in between two handlers (and inside a handler that waits): Download
\* is enabled if and only if Cancel is disabled, and Delete File is enabled
\* if and only if Download is, after any sequence of start_download,
\* cancel_download, update_progress, handle_error, add_to_history,
\* download_finished and delete_selected_file.
C13_ButtonsConsistent ==
    /\ download_button <=> ~cancel_button
    /\ delete_button <=> download_button

\* a second download was started after the first and then cancelled, and
\* the window is idle again
C13_Witness ==
    /\ MainIdle
    /\ Len(workers) = 2
    /\ workers[2].interrupted
    /\ workers[2].pc = "done"
    /\ download_button

\* the only download of the run of the program is over and the window has
\* handled all its notifications
OnlyRunHandled ==
    /\ MainIdle
    /\ Len(workers) = 1
    /\ workers[1].pc \in {"emitted", "done"}
    /\ queue = <<>>

\* C14: the entries a download run adds to the history follow its outcome,
\* however many callbacks the library made: a run that ended with an error
\* notification or was cancelled has added none, and a run whose download
\* call returned has added one. The entries of a run are those of its
\* expected final path (the history the program starts with has none of
\* that path); the user may have deleted the entry since, so that at most
\* one is left of a run that returned.
C14_EntriesFollowOutcome ==
    OnlyRunHandled =>
        LET w == workers[1]
            entries == CountIn(history_list, w.final_filepath)
        IN  IF w.outcome = "returns" /\ ~w.interrupted
            THEN entries <= 1
            ELSE entries = 0

\* C15: once all notifications of a download run have been handled, the
\* status label reflects how the run ended: it reads "Download finished."
\* only if the run emitted no error and was not cancelled, it reads
\* "Download failed." if the worker emitted an error, and "Download
\* canceled." if the user cancelled the download.
C15_StatusReflectsOutcome ==
    OnlyRunHandled =>
        LET w == workers[1]
            failed == CountIn(w.log, "error") > 0
        IN  /\ status_label = <<"Download finished.">> =>
                   (~failed /\ ~w.interrupted)
            /\ (failed /\ ~w.interrupted) =>
                   status_label = <<"Download failed.">>
            /\ w.interrupted => status_label = <<"Download canceled.">>

\* C16: delete_selected_file removes the selected entry from the history
\* list, and rewrites the history file, if and only if the file of that
\* entry existed and was removed from disk; with nothing selected, with a
\* file that does not exist and with a removal that raises, the list and
\* the file are left as they were.
C16_DeleteOnlyRemovedFiles ==
    [][last'.op = "delete_selected_file" =>
         \A sel \in 0..Len(history_list), exists \in BOOLEAN,
            remove_raises \in BOOLEAN :
             delete_selected_file_with(sel, exists, remove_raises)
             => /\ (history_list' /= history_list)
                    <=> (sel /= 0 /\ exists /\ ~remove_raises)
                /\ (sel /= 0 /\ exists /\ ~remove_raises) =>
                       /\ history_list' = RemoveAt(history_list, sel)
                       /\ load_history(<<>>, history_file') = history_list'
                /\ ~(sel /= 0 /\ exists /\ ~remove_raises) =>
                       UNCHANGED HistoryVars]_vars

\* the file of one of two entries was deleted: the other entry is listed
\* and stored
C16_Witness ==
    /\ last.op = "delete_selected_file"
    /\ last.result = "removed"
    /\ Len(history_list) = 1
    /\ load_history(<<>>, history_file) = history_list

=============================================================================
